---- MODULE Spec2Model ----
(***************************************************************************)
(* Model of the webhook trade ledger of src/main.py: the in-memory `state` *)
(* dictionary (stats, open_trade, trades, learn) and the webhook handler,  *)
(* one action per branch of the handler.                                   *)
(*                                                                         *)
(* Representation.  Prices are integers in thousandths (0.25 is 250); the  *)
(* prices used are multiples of 0.25, which the floats of the source hold  *)
(* exactly, so the integer comparisons are the float comparisons.  An      *)
(* optional number is <<>> (Python None) or <<v>>, a trade id is <<>>      *)
(* (none), <<name, 0>> (caller supplied) or <<symbol, t>> (generated from  *)
(* the symbol and the clock reading t >= 1).  An event is the request body *)
(* after the field parsing of webhook lines 188-237.  A request is first   *)
(* received (ev holds it, resp is empty) and then handled in one step by   *)
(* the branch its token selects, which leaves the response in resp.        *)
(*                                                                         *)
(* Three specifications share the variables.  Spec handles the requests    *)
(* one after the other.  SpecConc starts from a ledger with one open trade *)
(* and lets two threads (thr) take the statements of a closing branch in   *)
(* any interleaving.  SpecPure applies the parsing helpers (to_float,      *)
(* to_int, normalize_event and the if-chain, side_from_payload, the ENTRY  *)
(* record) to raw request fields; call holds the argument and the result.  *)
(* Strings are sequences of characters; the string methods of the source   *)
(* are defined on them.                                                    *)
(***************************************************************************)
EXTENDS Integers, Sequences, FiniteSets, TLC

VARIABLES trades, open_trade, stats, learn, clock, ev, resp, nev, thr, call

vars == <<trades, open_trade, stats, learn, clock, ev, resp, nev, thr, call>>

----------------------------------------------------------------------------
(* Bounds and input domains *)

MaxEvents == 3

Symbols == {"NQ", "SIL"}

TFs == {"1", "5"}

None == <<>>

NoId == <<>>

Some(v) == <<v>>

Val(o) == o[1]

CallerIds == {<<"a", 0>>}

EntryPrices == {None, Some(10000)}

ClosePrices == {None, Some(9500), Some(10000), Some(10250), Some(10500)}

Scores == {None, Some(85)}

SideFields == {"", "SELL"}

EntryTokens == {"ENTRY", "ENTRY_BUY"}

ExitTokens == {"TRAIL_EXIT", "TRAIL_EXIT_SHORT"}

BeTokens == {"BREAK_EVEN"}

AddsVals == {None, Some(2)}

SlVals == {None, Some(9750)}

----------------------------------------------------------------------------
(* Configuration, at the defaults of the source *)

LEARNING_MODE == FALSE

MIN_SCORE == 0

DEFAULT_TICK == 250

BE_EPS_TICKS == 1

----------------------------------------------------------------------------
(* Pure helpers *)

Abs(x) == IF x < 0 THEN -x ELSE x

\* Python's string operations, on strings as sequences of characters.
StartsWith(s, p) == Len(s) >= Len(p) /\ SubSeq(s, 1, Len(p)) = p

EndsWith(s, p) == Len(s) >= Len(p) /\ SubSeq(s, Len(s) - Len(p) + 1, Len(s)) = p

\* `p in s`
Contains(s, p) == \E i \in 1..(Len(s) - Len(p) + 1) : SubSeq(s, i, i + Len(p) - 1) = p

Char(s, i) == SubSeq(s, i, i)

Rest(s, n) == SubSeq(s, n + 1, Len(s))

LowerLetters == "abcdefghijklmnopqrstuvwxyz"

UpperLetters == "ABCDEFGHIJKLMNOPQRSTUVWXYZ"

\* The character c with the letters of `from` replaced by those of `to`.
MapChar(c, from, to) ==
    IF \E i \in 1..Len(from) : Char(from, i) = c
    THEN Char(to, CHOOSE i \in 1..Len(from) : Char(from, i) = c)
    ELSE c

RECURSIVE MapStr(_, _, _)
MapStr(s, from, to) ==
    IF s = "" THEN ""
    ELSE MapChar(Char(s, 1), from, to) \o MapStr(Rest(s, 1), from, to)

\* str.upper and str.lower
Upper(s) == MapStr(s, LowerLetters, UpperLetters)

Lower(s) == MapStr(s, UpperLetters, LowerLetters)

\* The characters str.strip removes (those an alert can carry).
Whitespace == {" ", "\t", "\n"}

RECURSIVE LStrip(_)
LStrip(s) == IF s # "" /\ Char(s, 1) \in Whitespace THEN LStrip(Rest(s, 1)) ELSE s

RECURSIVE RStrip(_)
RStrip(s) ==
    IF s # "" /\ Char(s, Len(s)) \in Whitespace THEN RStrip(SubSeq(s, 1, Len(s) - 1)) ELSE s

\* str.strip
Strip(s) == RStrip(LStrip(s))

\* str.replace: every occurrence of old, left to right, not overlapping.
RECURSIVE Replace(_, _, _)
Replace(s, old, new) ==
    IF Len(s) < Len(old) \/ s = "" THEN s
    ELSE IF StartsWith(s, old) THEN new \o Replace(Rest(s, Len(old)), old, new)
    ELSE Char(s, 1) \o Replace(Rest(s, 1), old, new)

normalize_event(event) ==
    Replace(Replace(Upper(Strip(event)), " ", "_"), "__", "_")

\* A field of the request body as json gives it: t is "none" (null or no such
\* key), "int", "bigint" (an integer beyond the range of float), "float",
\* "nan" or "inf" (the literals NaN, Infinity or an overflowing number),
\* "bool", "str", or "list" (any other object, s its str()); n is the number
\* in thousandths and s the string.
Raw(t, s, n) == [t |-> t, s |-> s, n |-> n]

\* What a coercion gives: an exception, no-value (val = None, special = ""),
\* a number in thousandths, or a value that is no finite float.
Coerced(val, special) == [raised |-> FALSE, val |-> val, special |-> special]

Raises == [raised |-> TRUE, val |-> None, special |-> ""]

NoValue == Coerced(None, "")

NaWords == {"", "na", "n/a", "null", "none"}

Digits == "0123456789"

AllDigits(s) == \A i \in 1..Len(s) : Contains(Digits, Char(s, i))

DigitVal(c) == (CHOOSE i \in 1..Len(Digits) : Char(Digits, i) = c) - 1

RECURSIVE NumVal(_)
NumVal(s) ==
    IF s = "" THEN 0 ELSE 10 * NumVal(SubSeq(s, 1, Len(s) - 1)) + DigitVal(Char(s, Len(s)))

\* float(s) for a stripped, lower-cased s: a signed decimal (one "." at most,
\* one digit at least), or nan, inf, infinity; anything else is a ValueError,
\* given here as no-value.  (Exponents and digit separators, which float
\* accepts too, are in none of the alerts.)
ParseFloat(s) ==
    LET signed == StartsWith(s, "+") \/ StartsWith(s, "-")
        sign == IF StartsWith(s, "-") THEN -1 ELSE 1
        body == IF signed THEN Rest(s, 1) ELSE s
        dots == {i \in 1..Len(body) : Char(body, i) = "."}
        p == IF dots = {} THEN Len(body) + 1 ELSE CHOOSE i \in dots : TRUE
        ip == SubSeq(body, 1, p - 1)
        fp == Rest(body, p)
    IN IF body = "nan" THEN Coerced(None, "nan")
       ELSE IF body \in {"inf", "infinity"} THEN Coerced(None, "inf")
       ELSE IF Cardinality(dots) <= 1 /\ AllDigits(ip) /\ AllDigits(fp) /\ Len(ip) + Len(fp) >= 1
       THEN Coerced(Some(sign * (1000 * NumVal(ip) + NumVal(SubSeq(fp \o "000", 1, 3)))), "")
       ELSE NoValue

to_float(x) ==
    IF x.t = "none" THEN NoValue
    ELSE IF x.t \in {"int", "float", "bool"} THEN Coerced(Some(x.n), "")
    ELSE IF x.t = "bigint" THEN Raises
    ELSE IF x.t \in {"nan", "inf"} THEN Coerced(None, x.t)
    ELSE LET s == Lower(Strip(x.s))
         IN IF s \in NaWords THEN NoValue ELSE ParseFloat(s)

\* int(x) of a float: towards zero.
Trunc(n) == IF n >= 0 THEN 1000 * (n \div 1000) ELSE -(1000 * ((-n) \div 1000))

to_int(x) ==
    IF x.t = "none" THEN NoValue
    ELSE IF x.t \in {"int", "bool"} THEN Coerced(Some(x.n), "")
    ELSE IF x.t = "bigint" THEN Coerced(None, "bigint")
    ELSE IF x.t = "float" THEN Coerced(Some(Trunc(x.n)), "")
    ELSE IF x.t \in {"nan", "inf"} THEN Raises
    ELSE LET s == Lower(Strip(x.s))
             f == ParseFloat(s)
         IN IF s \in NaWords THEN NoValue
            ELSE IF f.val = None THEN NoValue
            ELSE Coerced(Some(Trunc(Val(f.val))), "")

HasBuyMarker(e) == EndsWith(e, "_BUY") \/ Contains(e, "_BUY")

HasSellMarker(e) == EndsWith(e, "_SELL") \/ Contains(e, "_SELL")

side_from_payload(d) ==
    IF Upper(Strip(d.side)) \in {"BUY", "SELL"} THEN Upper(Strip(d.side))
    ELSE IF HasBuyMarker(d.e) THEN "BUY"
    ELSE IF HasSellMarker(d.e) THEN "SELL"
    ELSE IF Contains(d.e, "TRAIL_EXIT_LONG") THEN "BUY"
    ELSE IF Contains(d.e, "TRAIL_EXIT_SHORT") THEN "SELL"
    ELSE "N/A"

is_watch(e) == e \in {"WATCH_LONG", "WATCH_SHORT"}

is_ready(e) == e \in {"READY_LONG", "READY_SHORT"}

is_entry(e) == e \in {"ENTRY", "ENTRY_BUY", "ENTRY_SELL"} \/ StartsWith(e, "ENTRY")

is_break_even(e) == e \in {"BREAK_EVEN", "BE_ARM"}

is_trim(e) == e = "TRIM"

is_stop_hit(e) == e = "STOP_HIT"

is_exit_flip(e) == e = "EXIT_TREND_FLIP"

is_scale(e) == e = "SCALE" \/ StartsWith(e, "SCALE")

is_trail_exit(e) == Contains(e, "TRAIL_EXIT")

is_trail_update(e) == e = "TRAIL_UPDATE"

\* The branch of webhook that handles token e: the first test that matches,
\* in the order of the if-chain.
Branch(e) ==
    IF is_watch(e) THEN "watch"
    ELSE IF is_ready(e) THEN "ready"
    ELSE IF is_entry(e) THEN "entry"
    ELSE IF is_break_even(e) THEN "break_even"
    ELSE IF is_trim(e) THEN "trim"
    ELSE IF is_stop_hit(e) THEN "stop_hit"
    ELSE IF is_exit_flip(e) THEN "exit_flip"
    ELSE IF is_scale(e) THEN "scale"
    ELSE IF is_trail_update(e) THEN "trail_update"
    ELSE IF is_trail_exit(e) THEN "trail_exit"
    ELSE "unknown"

auto_fix_sl_tp(side, price, sl, tp) ==
    IF side \notin {"BUY", "SELL"} \/ price = None \/ sl = None \/ tp = None
    THEN <<sl, tp>>
    ELSE IF side = "BUY" /\ Val(sl) > Val(price) /\ Val(tp) < Val(price) THEN <<tp, sl>>
    ELSE IF side = "SELL" /\ Val(sl) < Val(price) /\ Val(tp) > Val(price) THEN <<tp, sl>>
    ELSE <<sl, tp>>

score_bucket(score) ==
    IF score = None THEN "None"
    ELSE IF Val(score) >= 80 THEN "A"
    ELSE IF Val(score) >= 65 THEN "B"
    ELSE IF Val(score) >= 50 THEN "C"
    ELSE "SKIP"

tick_by_symbol(symbol) ==
    IF Contains(Upper(symbol), "NQ") THEN 250
    ELSE IF Contains(Upper(symbol), "SIL") THEN 5
    ELSE DEFAULT_TICK

be_is_hit_strict(entry, exit_price, symbol) ==
    Abs(exit_price - entry) < tick_by_symbol(symbol) * BE_EPS_TICKS

be_is_hit(entry, exit_price, symbol) ==
    Abs(exit_price - entry) <= tick_by_symbol(symbol) * BE_EPS_TICKS

\* learn_record: the learning state after recording one outcome.
learn_record_any_side(L, symbol, side, score, win) ==
    LET b == score_bucket(score)
        k == <<symbol, side, b>>
        L0 == IF k \in DOMAIN L THEN L ELSE L @@ (k :> [w |-> 0, l |-> 0])
    IN IF b = "None" THEN L
       ELSE IF win THEN [L0 EXCEPT ![k].w = @ + 1]
       ELSE [L0 EXCEPT ![k].l = @ + 1]

learn_record(L, symbol, side, score, win) ==
    LET b == score_bucket(score)
        k == <<symbol, side, b>>
        L0 == IF k \in DOMAIN L THEN L ELSE L @@ (k :> [w |-> 0, l |-> 0])
    IN IF side \notin {"BUY", "SELL"} THEN L
       ELSE IF b = "None" THEN L
       ELSE IF win THEN [L0 EXCEPT ![k].w = @ + 1]
       ELSE [L0 EXCEPT ![k].l = @ + 1]

learn_should_send(L, symbol, side, score) ==
    IF ~LEARNING_MODE THEN TRUE
    ELSE IF score # None /\ Val(score) < MIN_SCORE THEN FALSE
    ELSE LET b == score_bucket(score)
             k == <<symbol, side, b>>
         IN IF b = "None" THEN TRUE
            ELSE IF k \notin DOMAIN L THEN TRUE
            ELSE LET w == L[k].w
                     l == L[k].l
                 IN IF w + l < 10 THEN TRUE
                    ELSE IF b \in {"SKIP", "C"} /\ 10 * w < 4 * (w + l) THEN FALSE
                    ELSE TRUE

----------------------------------------------------------------------------
(* The common prefix of webhook *)

\* stats after `if symbol not in state["stats"]`.
StatsInit(S, symbol) ==
    IF symbol \in DOMAIN S THEN S
    ELSE S @@ (symbol :> [wins |-> 0, losses |-> 0, be |-> 0])

\* score_val: the event's score, else the score of the detected side.
ScoreVal(d) ==
    IF d.score # None THEN d.score
    ELSE IF side_from_payload(d) = "BUY" THEN d.buyScore
    ELSE IF side_from_payload(d) = "SELL" THEN d.sellScore
    ELSE None

\* entry after `if entry is None and is_entry(e): entry = price`.
EntryVal(d) == IF d.entry = None /\ is_entry(d.e) THEN d.price ELSE d.entry

FixedSlTp(d) == auto_fix_sl_tp(side_from_payload(d), EntryVal(d), d.sl, d.tp)

\* trade_id = incoming_trade_id or state["open_trade"].get(symbol), with
\* index O
LinkIn(O, d) ==
    IF d.trade_id # NoId THEN d.trade_id
    ELSE IF d.symbol \in DOMAIN O THEN O[d.symbol]
    ELSE NoId

LinkId(d) == LinkIn(open_trade, d)

\* t = state["trades"].get(trade_id) if trade_id else None, as "t is truthy"
Linked(d) == LinkId(d) # NoId /\ LinkId(d) \in DOMAIN trades

\* state["open_trade"].pop(symbol, None)
Pop(O, symbol) == [k \in (DOMAIN O) \ {symbol} |-> O[k]]

\* send_telegram: "sent" (delivered, or printed when no token is configured)
\* or "raise" (requests.post or raise_for_status raises; nothing catches it).
TgOutcomes == {"sent", "raise"}

\* What the request returns: the JSON body (ok, trade_id, warning), or the
\* exception that left the handler; msg is the notification handed to
\* send_telegram ("" when the branch sends none).
Response(tg, tid, warning, msg) ==
    IF tg = "raise"
    THEN [ok |-> FALSE, raised |-> TRUE, trade_id |-> NoId, warning |-> "", msg |-> msg]
    ELSE [ok |-> TRUE, raised |-> FALSE, trade_id |-> tid, warning |-> warning, msg |-> msg]

NoResponse == [ok |-> FALSE, raised |-> FALSE, trade_id |-> NoId, warning |-> "", msg |-> ""]

\* The request body with every field absent.
BaseEvent ==
    [e |-> "", symbol |-> "NQ", tf |-> "1", side |-> "", price |-> None,
     entry |-> None, sl |-> None, tp |-> None, be_trigger |-> None,
     contracts |-> None, score |-> None, buyScore |-> None, sellScore |-> None,
     adds |-> None, trade_id |-> NoId]

----------------------------------------------------------------------------
(* Events each branch is driven with *)
(* Every branch is driven with a reference alert and the alerts that       *)
(* differ from it in at most one field.                                    *)

Ids == {NoId} \cup CallerIds

EventFields == DOMAIN BaseEvent

Varied(d, ref) == Cardinality({f \in EventFields : d[f] # ref[f]})

Near(S, ref) == {d \in S : Varied(d, ref) <= 1}

\* The alerts with one of `tokens` whose fields outside `fields` are those of
\* the empty alert.
EventsOf(tokens, fields) ==
    LET all == {[BaseEvent EXCEPT !.e = e, !.symbol = s, !.tf = tf, !.side = sd,
                                  !.price = p, !.sl = sl, !.score = sc, !.adds = a,
                                  !.trade_id = id] :
                   e \in tokens, s \in Symbols, tf \in TFs, sd \in SideFields,
                   p \in EntryPrices \cup ClosePrices, sl \in SlVals, sc \in Scores,
                   a \in AddsVals, id \in Ids}
    IN {d \in all : \A f \in EventFields \ (fields \cup {"e"}) : d[f] = BaseEvent[f]}

EntryFields == {"symbol", "tf", "side", "price", "score", "trade_id"}

CloseFields == {"symbol", "tf", "price", "trade_id"}

ManageFields == {"symbol", "trade_id"}

RefEntry ==
    [BaseEvent EXCEPT !.e = "ENTRY_BUY", !.price = Some(10000), !.score = Some(85),
                      !.trade_id = <<"a", 0>>]

EntryEvents ==
    {d \in Near(EventsOf(EntryTokens, EntryFields), RefEntry) : d.price \in EntryPrices}

RefClose(token) == [BaseEvent EXCEPT !.e = token, !.price = Some(10500)]

StopHitEvents == Near(EventsOf({"STOP_HIT"}, CloseFields), RefClose("STOP_HIT"))

ExitFlipEvents == Near(EventsOf({"EXIT_TREND_FLIP"}, CloseFields), RefClose("EXIT_TREND_FLIP"))

TrailExitEvents == Near(EventsOf(ExitTokens, CloseFields), RefClose("TRAIL_EXIT"))

RefManage(token) == [BaseEvent EXCEPT !.e = token]

BreakEvenEvents == Near(EventsOf(BeTokens, ManageFields), RefManage("BREAK_EVEN"))

TrimEvents == Near(EventsOf({"TRIM"}, ManageFields), RefManage("TRIM"))

ScaleEvents ==
    Near(EventsOf({"SCALE"}, ManageFields \cup {"adds"}), [RefManage("SCALE") EXCEPT !.adds = Some(2)])

TrailUpdateEvents ==
    Near(EventsOf({"TRAIL_UPDATE"}, ManageFields \cup {"sl"}), [RefManage("TRAIL_UPDATE") EXCEPT !.sl = Some(9750)])

WatchEvents == Near(EventsOf({"WATCH_LONG"}, {"symbol"}), RefManage("WATCH_LONG"))

ReadyEvents == Near(EventsOf({"READY_LONG"}, {"symbol"}), RefManage("READY_LONG"))

UnknownEvents == Near(EventsOf({"FOO"}, {"symbol"}), RefManage("FOO"))

----------------------------------------------------------------------------
(* The handler, one action per branch *)

NoEvent == BaseEvent

\* The request threads of the server (app.run serves each request in its own
\* thread); two are enough for two requests in flight.
Threads == {"t1", "t2"}

\* A thread that handles no request: its position in webhook, the request,
\* and the locals trade_id, outcome, the counter value read by `+= 1`, and
\* what the request returned.
IdleThread ==
    [pc |-> "idle", d |-> NoEvent, tid |-> NoId, outcome |-> "None", cnt |-> 0,
     resp |-> NoResponse]

\* No helper function is being applied.
NoCall == [fn |-> "", arg |-> <<>>, done |-> FALSE, out |-> <<>>]

Init ==
    /\ trades = <<>>
    /\ open_trade = <<>>
    /\ stats = <<>>
    /\ learn = <<>>
    /\ clock = 1
    /\ ev = NoEvent
    /\ resp = NoResponse
    /\ nev = 0
    /\ thr = [th \in Threads |-> IdleThread]
    /\ call = NoCall

\* A request arrives; the server handles one request at a time.
Arrive(d) ==
    /\ ev = NoEvent
    /\ nev < MaxEvents
    /\ nev' = nev + 1
    /\ ev' = d
    /\ resp' = NoResponse
    /\ UNCHANGED <<trades, open_trade, stats, learn, clock, thr, call>>

\* What every branch does: the request is the one being handled, the branch
\* is the one its token selects, and the request is finished.
Handling(branch) ==
    /\ ev # NoEvent
    /\ Branch(ev.e) = branch
    /\ ev' = NoEvent
    /\ nev' = nev
    /\ UNCHANGED <<thr, call>>

\* A branch that only sends a notification.
NoticeOnly(tg, tid, warning, msg) ==
    /\ stats' = StatsInit(stats, ev.symbol)
    /\ resp' = Response(tg, tid, warning, msg)
    /\ UNCHANGED <<trades, open_trade, learn, clock>>

Watch(tg) ==
    /\ Handling("watch")
    /\ NoticeOnly(tg, NoId, "", "WATCH")

Ready(tg) ==
    /\ Handling("ready")
    /\ NoticeOnly(tg, NoId, "", "READY")

\* The trade id of an ENTRY: the caller's, else symbol and timestamp.
EntryId(d, now) == IF d.trade_id # NoId THEN d.trade_id ELSE <<d.symbol, now>>

NewTrade(d, tid, now) ==
    [trade_id |-> tid, symbol |-> d.symbol, side |-> side_from_payload(d),
     tf |-> d.tf, entry |-> EntryVal(d), sl |-> FixedSlTp(d)[1],
     tp |-> FixedSlTp(d)[2], be_trigger |-> d.be_trigger,
     contracts |-> d.contracts,
     adds |-> IF d.adds # None THEN Val(d.adds) ELSE 0,
     score |-> ScoreVal(d), be_armed |-> FALSE, opened_at |-> now,
     closed_at |-> None, exit |-> None, result |-> "None",
     exit_reason |-> "None"]

\* The warning the ENTRY branch appends to its notification.
EntryWarning(d) ==
    LET side == side_from_payload(d)
        tp == FixedSlTp(d)[2]
        entry == EntryVal(d)
    IN IF side = "SELL" /\ tp # None /\ entry # None /\ Val(tp) >= Val(entry)
       THEN "TP should be BELOW entry for SELL"
       ELSE IF side = "BUY" /\ tp # None /\ entry # None /\ Val(tp) <= Val(entry)
       THEN "TP should be ABOVE entry for BUY"
       ELSE ""

EntryIndexKeep(O, symbol, tid) ==
    IF symbol \in DOMAIN O THEN O ELSE (symbol :> tid) @@ O

\* state["open_trade"][symbol] = trade_id
EntryIndex(O, symbol, tid) == (symbol :> tid) @@ O

Entry(tg, now) ==
    /\ Handling("entry")
    /\ clock' = now
    /\ LET tid == EntryId(ev, now)
       IN /\ open_trade' = EntryIndex(open_trade, ev.symbol, tid)
          /\ trades' = (tid :> NewTrade(ev, tid, now)) @@ trades
          /\ stats' = StatsInit(stats, ev.symbol)
          /\ resp' = IF learn_should_send(learn, ev.symbol, side_from_payload(ev), ScoreVal(ev))
                     THEN Response(tg, tid, "", "TAKE")
                     ELSE Response("sent", tid, "", "")
    /\ UNCHANGED learn

BreakEven(tg) ==
    /\ Handling("break_even")
    /\ stats' = StatsInit(stats, ev.symbol)
    /\ IF Linked(ev)
       THEN /\ trades' = [trades EXCEPT ![LinkId(ev)].be_armed = TRUE]
            /\ resp' = Response(tg, LinkId(ev), "", "MOVE_SL_TO_BE")
       ELSE /\ trades' = trades
            /\ resp' = Response(tg, NoId, "be_without_open_trade", "BE_NO_OPEN_TRADE")
    /\ UNCHANGED <<open_trade, learn, clock>>

Trim(tg) ==
    /\ Handling("trim")
    /\ IF Linked(ev)
       THEN NoticeOnly(tg, LinkId(ev), "", "TRIM_HIT")
       ELSE NoticeOnly(tg, NoId, "trim_without_open_trade", "TRIM_NO_OPEN_TRADE")

\* `not t or t.get("entry") is None or price is None`
NoLink(d) == ~Linked(d) \/ trades[LinkId(d)].entry = None \/ d.price = None

\* The four assignments that close trade t.
Closed(t, d, outcome, now) ==
    [t EXCEPT !.closed_at = Some(now), !.exit = d.price, !.result = outcome,
              !.exit_reason = d.e]

Bump(S, symbol, counter) == [S EXCEPT ![symbol][counter] = @ + 1]

\* The label STOP_HIT gives trade t.
StopHitOutcome(t, d) ==
    IF t.be_armed /\ be_is_hit(Val(t.entry), Val(d.price), d.symbol)
    THEN "BREAKEVEN" ELSE "LOSS"

win_rule_long_only(display_side, price, entry_px) == price > entry_px

\* win_bool of the TRAIL_EXIT and EXIT_TREND_FLIP branches.
win_rule(display_side, price, entry_px) ==
    IF display_side = "BUY" THEN price > entry_px ELSE price < entry_px

\* The label EXIT_TREND_FLIP gives trade t: the win test first.
ExitFlipOutcome(t, d) ==
    IF win_rule(t.side, Val(d.price), Val(t.entry)) THEN "WIN"
    ELSE IF be_is_hit(Val(t.entry), Val(d.price), d.symbol) THEN "BREAKEVEN"
    ELSE "LOSS"

\* The label TRAIL_EXIT gives trade t: the breakeven test first.
TrailExitOutcome(t, d) ==
    IF be_is_hit(Val(t.entry), Val(d.price), d.symbol) THEN "BREAKEVEN"
    ELSE IF win_rule(t.side, Val(d.price), Val(t.entry)) THEN "WIN"
    ELSE "LOSS"

CounterOf(outcome) ==
    IF outcome = "WIN" THEN "wins" ELSE IF outcome = "LOSS" THEN "losses" ELSE "be"

\* A close that sends before it changes the index.
CloseLinkedRollback(tg, now, outcome, msg) ==
    LET tid == LinkId(ev)
        t == trades[tid]
    IN /\ clock' = now
       /\ stats' = Bump(StatsInit(stats, ev.symbol), ev.symbol, CounterOf(outcome))
       /\ trades' = [trades EXCEPT ![tid] = Closed(t, ev, outcome, now)]
       /\ learn' = IF outcome = "BREAKEVEN" THEN learn
                   ELSE learn_record(learn, ev.symbol, t.side, t.score, outcome = "WIN")
       /\ open_trade' = IF tg = "raise" THEN open_trade ELSE Pop(open_trade, ev.symbol)
       /\ resp' = Response(tg, tid, "", msg)

\* The part the three closing branches share once the trade is linked:
\* count the outcome under the event's symbol, close the record, record the
\* sample unless breakeven, pop the event's symbol from the index, notify.
CloseLinked(tg, now, outcome, msg) ==
    LET tid == LinkId(ev)
        t == trades[tid]
    IN /\ clock' = now
       /\ stats' = Bump(StatsInit(stats, ev.symbol), ev.symbol, CounterOf(outcome))
       /\ trades' = [trades EXCEPT ![tid] = Closed(t, ev, outcome, now)]
       /\ learn' = IF outcome = "BREAKEVEN" THEN learn
                   ELSE learn_record(learn, ev.symbol, t.side, t.score, outcome = "WIN")
       /\ open_trade' = Pop(open_trade, ev.symbol)
       /\ resp' = Response(tg, tid, "", msg)

\* The guard path of the closing branches: a notification, nothing else.
CloseUnlinked(tg, msg) == NoticeOnly(tg, LinkId(ev), "", msg)

StopHit(tg, now) ==
    /\ Handling("stop_hit")
    /\ IF NoLink(ev) THEN now = clock /\ CloseUnlinked(tg, "STOP_HIT_NO_LINKED_ENTRY")
       ELSE CloseLinked(tg, now, StopHitOutcome(trades[LinkId(ev)], ev), "STOP_HIT")

ExitFlip(tg, now) ==
    /\ Handling("exit_flip")
    /\ IF NoLink(ev) THEN now = clock /\ CloseUnlinked(tg, "EXIT_NO_LINKED_TRADE")
       ELSE CloseLinked(tg, now, ExitFlipOutcome(trades[LinkId(ev)], ev), "EXIT_TREND_FLIP")

Scale(tg) ==
    /\ Handling("scale")
    /\ stats' = StatsInit(stats, ev.symbol)
    /\ IF Linked(ev)
       THEN /\ trades' = [trades EXCEPT ![LinkId(ev)].adds =
                              IF ev.adds # None THEN Val(ev.adds) ELSE @]
            /\ resp' = IF learn_should_send(learn, ev.symbol, side_from_payload(ev), ScoreVal(ev))
                       THEN Response(tg, LinkId(ev), "", "SCALE_ALERT")
                       ELSE Response("sent", LinkId(ev), "", "")
       ELSE /\ trades' = trades
            /\ resp' = Response(tg, NoId, "scale_without_open_trade", "SCALE_NO_OPEN_TRADE")
    /\ UNCHANGED <<open_trade, learn, clock>>

\* TRAIL_UPDATE sends nothing.
TrailUpdate ==
    /\ Handling("trail_update")
    /\ stats' = StatsInit(stats, ev.symbol)
    /\ IF Linked(ev)
       THEN /\ trades' = [trades EXCEPT ![LinkId(ev)].sl =
                              IF FixedSlTp(ev)[1] # None THEN FixedSlTp(ev)[1] ELSE @]
            /\ resp' = Response("sent", LinkId(ev), "", "")
       ELSE /\ trades' = trades
            /\ resp' = Response("sent", NoId, "trail_update_without_trade", "")
    /\ UNCHANGED <<open_trade, learn, clock>>

TrailExit(tg, now) ==
    /\ Handling("trail_exit")
    /\ IF NoLink(ev) THEN now = clock /\ CloseUnlinked(tg, "TRAIL_EXIT_NO_LINKED_ENTRY")
       ELSE CloseLinked(tg, now, TrailExitOutcome(trades[LinkId(ev)], ev), "TRAIL_EXIT")

Unknown(tg) ==
    /\ Handling("unknown")
    /\ NoticeOnly(tg, NoId, "", "UNKNOWN_EVENT")

\* A reading of the wall clock: the value the previous reading gave, or a
\* later one.  Only the ENTRY branch and a close read the clock.
Times == {clock, clock + 1}

Events ==
    WatchEvents \cup ReadyEvents \cup EntryEvents \cup BreakEvenEvents \cup TrimEvents
    \cup StopHitEvents \cup ExitFlipEvents \cup ScaleEvents \cup TrailUpdateEvents
    \cup TrailExitEvents \cup UnknownEvents

Next ==
    \/ \E d \in Events : Arrive(d)
    \/ \E tg \in TgOutcomes : Watch(tg)
    \/ \E tg \in TgOutcomes : Ready(tg)
    \/ \E tg \in TgOutcomes, now \in Times : Entry(tg, now)
    \/ \E tg \in TgOutcomes : BreakEven(tg)
    \/ \E tg \in TgOutcomes : Trim(tg)
    \/ \E tg \in TgOutcomes, now \in Times : StopHit(tg, now)
    \/ \E tg \in TgOutcomes, now \in Times : ExitFlip(tg, now)
    \/ \E tg \in TgOutcomes : Scale(tg)
    \/ TrailUpdate
    \/ \E tg \in TgOutcomes, now \in Times : TrailExit(tg, now)
    \/ \E tg \in TgOutcomes : Unknown(tg)

Spec == Init /\ [][Next]_vars

----------------------------------------------------------------------------
(* Two closing requests in flight *)
(* The server handles each request in a thread of its own and webhook takes *)
(* no lock, so the statements of two requests interleave.  A thread's steps *)
(* are the statements of a closing branch that read or write `state`; the   *)
(* four assignments that close the record are taken as one step, and so is  *)
(* learn_record.                                                            *)

\* The ledger after one accepted ENTRY d.
AfterEntry(d) ==
    LET tid == EntryId(d, 1)
    IN /\ trades = (tid :> NewTrade(d, tid, 1))
       /\ open_trade = EntryIndex(<<>>, d.symbol, tid)
       /\ stats = StatsInit(<<>>, d.symbol)
       /\ learn = <<>>
       /\ clock = 1

ConcEntries == {d \in EntryEvents : d.price # None /\ d.tf = "1"}

ConcCloses == {d \in StopHitEvents \cup ExitFlipEvents \cup TrailExitEvents : d.tf = "1"}

InitConc ==
    /\ \E d \in ConcEntries : AfterEntry(d)
    /\ ev = NoEvent
    /\ resp = NoResponse
    /\ nev = 1
    /\ thr = [th \in Threads |-> IdleThread]
    /\ call = NoCall

Step(th, pc) ==
    /\ thr[th].pc = pc
    /\ UNCHANGED <<ev, resp, nev, call>>

\* request.get_json and the field parsing: the thread has its request.
T_Receive(th, d) ==
    /\ Step(th, "idle")
    /\ thr' = [thr EXCEPT ![th].pc = "stats_test", ![th].d = d]
    /\ UNCHANGED <<trades, open_trade, stats, learn, clock>>

\* `if symbol not in state["stats"]`
T_StatsTest(th) ==
    /\ Step(th, "stats_test")
    /\ thr' = [thr EXCEPT ![th].pc =
                  IF thr[th].d.symbol \in DOMAIN stats THEN "lookup" ELSE "stats_set"]
    /\ UNCHANGED <<trades, open_trade, stats, learn, clock>>

\* `state["stats"][symbol] = {"wins": 0, "losses": 0, "be": 0}`
T_StatsSet(th) ==
    /\ Step(th, "stats_set")
    /\ stats' = [s \in DOMAIN stats \cup {thr[th].d.symbol} |->
                    IF s = thr[th].d.symbol THEN [wins |-> 0, losses |-> 0, be |-> 0]
                    ELSE stats[s]]
    /\ thr' = [thr EXCEPT ![th].pc = "lookup"]
    /\ UNCHANGED <<trades, open_trade, learn, clock>>

\* The outcome the branch of d gives trade t.
OutcomeOf(t, d) ==
    IF Branch(d.e) = "stop_hit" THEN StopHitOutcome(t, d)
    ELSE IF Branch(d.e) = "exit_flip" THEN ExitFlipOutcome(t, d)
    ELSE TrailExitOutcome(t, d)

\* find-open: the lookup of trade_id and t and the guard; then the label.
T_Lookup(th) ==
    /\ Step(th, "lookup")
    /\ LET d == thr[th].d
           tid == LinkIn(open_trade, d)
           found == tid # NoId /\ tid \in DOMAIN trades
       IN thr' = IF ~found \/ trades[tid].entry = None \/ d.price = None
                 THEN [thr EXCEPT ![th].pc = "send", ![th].tid = tid]
                 ELSE [thr EXCEPT ![th].pc = "read", ![th].tid = tid,
                                  ![th].outcome = OutcomeOf(trades[tid], d)]
    /\ UNCHANGED <<trades, open_trade, stats, learn, clock>>

\* `state["stats"][symbol][k] += 1`: the read ...
T_Read(th) ==
    /\ Step(th, "read")
    /\ thr' = [thr EXCEPT ![th].pc = "count",
                          ![th].cnt = stats[thr[th].d.symbol][CounterOf(thr[th].outcome)]]
    /\ UNCHANGED <<trades, open_trade, stats, learn, clock>>

\* ... and the write.
T_Count(th) ==
    /\ Step(th, "count")
    /\ stats' = [stats EXCEPT ![thr[th].d.symbol][CounterOf(thr[th].outcome)] = thr[th].cnt + 1]
    /\ thr' = [thr EXCEPT ![th].pc = "close"]
    /\ UNCHANGED <<trades, open_trade, learn, clock>>

T_Close(th, now) ==
    /\ Step(th, "close")
    /\ clock' = now
    /\ trades' = [trades EXCEPT ![thr[th].tid] =
                      Closed(trades[thr[th].tid], thr[th].d, thr[th].outcome, now)]
    /\ thr' = [thr EXCEPT ![th].pc = "learn"]
    /\ UNCHANGED <<open_trade, stats, learn>>

T_Learn(th) ==
    /\ Step(th, "learn")
    /\ LET t == trades[thr[th].tid]
       IN learn' = IF thr[th].outcome = "BREAKEVEN" THEN learn
                   ELSE learn_record(learn, thr[th].d.symbol, t.side, t.score,
                                     thr[th].outcome = "WIN")
    /\ thr' = [thr EXCEPT ![th].pc = "pop"]
    /\ UNCHANGED <<trades, open_trade, stats, clock>>

T_Pop(th) ==
    /\ Step(th, "pop")
    /\ open_trade' = Pop(open_trade, thr[th].d.symbol)
    /\ thr' = [thr EXCEPT ![th].pc = "send"]
    /\ UNCHANGED <<trades, stats, learn, clock>>

T_Send(th, tg) ==
    /\ Step(th, "send")
    /\ thr' = [thr EXCEPT ![th].pc = "done",
                          ![th].resp = Response(tg, thr[th].tid, "",
                                                IF thr[th].outcome = "None"
                                                THEN "NO_LINKED_ENTRY" ELSE "CLOSED")]
    /\ UNCHANGED <<trades, open_trade, stats, learn, clock>>

NextConc ==
    \/ \E th \in Threads, d \in ConcCloses : T_Receive(th, d)
    \/ \E th \in Threads : T_StatsTest(th)
    \/ \E th \in Threads : T_StatsSet(th)
    \/ \E th \in Threads : T_Lookup(th)
    \/ \E th \in Threads : T_Read(th)
    \/ \E th \in Threads : T_Count(th)
    \/ \E th \in Threads, now \in Times : T_Close(th, now)
    \/ \E th \in Threads : T_Learn(th)
    \/ \E th \in Threads : T_Pop(th)
    \/ \E th \in Threads, tg \in TgOutcomes : T_Send(th, tg)

SpecConc == InitConc /\ [][NextConc]_vars

----------------------------------------------------------------------------
(* The parsing helpers, applied to raw request fields *)
(* `call` holds the helper being applied, its argument as the request body  *)
(* carries it, and the result once the helper has returned.                 *)

TokenCores ==
    {"", "ENTRY", "ENTRY_BUY", "ENTRY_SELL", "ENTRY_LONG", "SCALE", "SCALE_IN",
     "TRAIL_EXIT", "TRAIL_EXIT_LONG", "TRAIL_EXIT_SHORT", "MY_TRAIL_EXIT",
     "TRAIL_UPDATE", "TRAIL", "CLOSE", "CLOSE_LONG", "OUTCOME", "STOP_HIT",
     "EXIT_TREND_FLIP", "BREAK_EVEN", "BE_ARM", "TRIM", "WATCH_LONG",
     "READY_SHORT", "FOO"}

\* Each token as an alert may spell it: upper or lower case, words joined
\* by "_" or by a blank, with or without blanks around it.
RawTokens ==
    UNION {{c, Lower(c), Replace(c, "_", " "), " " \o c, Lower(c) \o "\t ",
            "\n" \o Replace(Lower(c), "_", " ") \o " "} : c \in TokenCores}

PureLedger ==
    /\ trades = <<>> /\ open_trade = <<>> /\ stats = <<>> /\ learn = <<>>
    /\ clock = 1 /\ ev = NoEvent /\ resp = NoResponse /\ nev = 0
    /\ thr = [th \in Threads |-> IdleThread]

Pending(fn, arg) == [fn |-> fn, arg |-> arg, done |-> FALSE, out |-> <<>>]

\* Opening alerts with every placement of stop and target around the price.
Levels == {None, Some(9500), Some(9750), Some(10000), Some(10250), Some(10500)}

OpenAlerts ==
    {[BaseEvent EXCEPT !.e = e, !.side = sd, !.price = Some(10000), !.sl = sl, !.tp = tp] :
        e \in {"ENTRY", "ENTRY_BUY", "ENTRY_SELL"}, sd \in {"", "sell"},
        sl \in Levels, tp \in Levels}

\* Alerts with every source of the side: the side field, a marker in the
\* token, and the two side scores.
SideAlerts ==
    {[BaseEvent EXCEPT !.e = e, !.side = sd, !.buyScore = b, !.sellScore = sl] :
        e \in {"ENTRY", "entry_buy", "ENTRY SELL", "TRAIL_EXIT_LONG", "trail exit short", "SCALE"},
        sd \in {"", "BUY", " sell", "x"},
        b \in {None, Some(40), Some(85)}, sl \in {None, Some(40), Some(85)}}

\* The spellings of no-value, numbers as strings with their value in
\* thousandths, and strings that are no number.
NoValueWords == {"", "na", "NA", "n/a", "N/A", "Na", "none", "None", "NONE"}

NumericLike ==
    {<<"12.5", 12500>>, <<"7", 7000>>, <<"-3", -3000>>, <<"+0.25", 250>>,
     <<".5", 500>>, <<"7.9", 7900>>, <<"-7.9", -7900>>, <<"10.", 10000>>}

Unparseable == {"abc", "12.5.1", "1,5", "--3", "$7", ".", "-"}

\* Strings float() parses to a value that is no finite number.
NonFiniteWords == {"nan", "inf", "-Infinity"}

Padded(words) == UNION {{w, " " \o w, w \o " ", "\t" \o w \o " \n"} : w \in words}

RawValues ==
    {Raw("none", "", 0), Raw("int", "", 7000), Raw("int", "", -3000), Raw("bigint", "", 0),
     Raw("float", "", 12500), Raw("float", "", -7900), Raw("nan", "", 0), Raw("inf", "", 0),
     Raw("bool", "", 1000), Raw("list", "[1]", 0)}
    \cup {Raw("str", s, 0) :
              s \in Padded(NoValueWords \cup Unparseable \cup NonFiniteWords
                          \cup {"null"} \cup {p[1] : p \in NumericLike})}

InitPure ==
    /\ PureLedger
    /\ \/ \E raw \in RawTokens : call = Pending("classify", raw)
       \/ \E d \in OpenAlerts : call = Pending("entry", d)
       \/ \E d \in SideAlerts : call = Pending("side", d)
       \/ \E x \in RawValues, fn \in {"to_float", "to_int"} : call = Pending(fn, x)

Returns(fn, out) ==
    /\ call.fn = fn /\ ~call.done
    /\ call' = [call EXCEPT !.done = TRUE, !.out = out]
    /\ UNCHANGED <<trades, open_trade, stats, learn, clock, ev, resp, nev, thr>>

\* raw_event = str(data.get("event", "")).strip(); e = normalize_event(raw_event);
\* then the if-chain of webhook.
Classify ==
    LET e == normalize_event(Strip(call.arg))
    IN Returns("classify", [e |-> e, branch |-> Branch(e)])

\* The record the ENTRY branch stores for alert d, and its warning.
OpenRecord ==
    Returns("entry", [trade |-> NewTrade(call.arg, EntryId(call.arg, clock), clock),
                      warning |-> EntryWarning(call.arg)])

\* side = side_from_payload(data, e) and the choice of score_val.
DetectSide ==
    LET d == [call.arg EXCEPT !.e = normalize_event(Strip(call.arg.e))]
    IN Returns("side", [side |-> side_from_payload(d), score |-> ScoreVal(d)])

\* price, entry, sl, tp1, be_trigger, score, tp, adds, buyScore, sellScore
ToFloat == Returns("to_float", to_float(call.arg))

\* contracts
ToInt == Returns("to_int", to_int(call.arg))

NextPure ==
    \/ Classify
    \/ OpenRecord
    \/ DetectSide
    \/ ToFloat
    \/ ToInt

SpecPure == InitPure /\ [][NextPure]_vars

----------------------------------------------------------------------------
(* Vocabulary of the properties *)

IsClosing(e) == Branch(e) \in {"stop_hit", "exit_flip", "trail_exit"}

\* The step handles the received request.
Handles == ev # NoEvent /\ ev' = NoEvent

\* The step handles a closing request that passes the guard and closes a trade.
Closes == Handles /\ IsClosing(ev.e) /\ ~NoLink(ev)

Counter(S, symbol, k) == IF symbol \in DOMAIN S THEN S[symbol][k] ELSE 0

SameCounters(S, T, ks) == \A s \in Symbols : \A k \in ks : Counter(S, s, k) = Counter(T, s, k)

AllCounters == {"wins", "losses", "be"}

IsClosed(t) == t.closed_at # None

\* |close - entry| <= tick x BE_EPS_TICKS, with the tick of `symbol`
InBand(t, price, symbol) ==
    LET diff == Val(price) - Val(t.entry)
        band == (IF symbol = "SIL" THEN 5 ELSE 250) * 1
    IN diff <= band /\ -diff <= band

----------------------------------------------------------------------------
(* C1 *)

\* C1: a closing event (TRAIL_EXIT*, STOP_HIT, EXIT_TREND_FLIP) never changes
\* the label, the close price or closed_at of a trade that is already closed.
C1_ClosedTradeNotReclosed ==
    [][(Handles /\ IsClosing(ev.e)) =>
          \A id \in DOMAIN trades :
              IsClosed(trades[id]) =>
                  /\ trades'[id].result = trades[id].result
                  /\ trades'[id].exit = trades[id].exit
                  /\ trades'[id].closed_at = trades[id].closed_at]_vars

(* C2 *)

\* C2: no SCALE, TRAIL_UPDATE, BREAK_EVEN or ENTRY event changes any field of
\* the record of a trade that is already closed.
C2_ClosedTradeImmutable ==
    [][(Handles /\ Branch(ev.e) \in {"scale", "trail_update", "break_even", "entry"}) =>
          \A id \in DOMAIN trades :
              IsClosed(trades[id]) => trades'[id] = trades[id]]_vars

(* C3 *)

\* C3: a closing event without an explicit trade id closes only a still-open
\* trade of the event's instrument and timeframe, and after an ENTRY on one
\* timeframe the open trade of another timeframe of the same instrument is
\* still the one a closing event of its own timeframe is linked to.
C3_LinkPerInstrumentAndTimeframe ==
    [][/\ (Closes /\ ev.trade_id = NoId) =>
              LET t == trades[LinkId(ev)]
              IN t.symbol = ev.symbol /\ t.tf = ev.tf /\ ~IsClosed(t)
       /\ (Handles /\ Branch(ev.e) = "entry" /\ Linked([ev EXCEPT !.trade_id = NoId])) =>
              LET p == open_trade[ev.symbol]
                  own == [BaseEvent EXCEPT !.symbol = ev.symbol, !.tf = trades[p].tf]
              IN (~IsClosed(trades[p]) /\ trades[p].tf # ev.tf) =>
                     LinkIn(open_trade', own) = p]_vars

(* C4 *)

\* C4: closing trade T leaves no index entry that refers to T and leaves
\* every index entry that referred to another trade as it was.
C4_CloseUnlinksOnlyItsTrade ==
    [][Closes =>
          LET tid == LinkId(ev)
          IN /\ \A s \in DOMAIN open_trade' : open_trade'[s] # tid
             /\ \A s \in DOMAIN open_trade :
                    open_trade[s] # tid =>
                        s \in DOMAIN open_trade' /\ open_trade'[s] = open_trade[s]]_vars

(* C5 *)

\* C5: an ENTRY for a symbol whose current open trade P is still open makes
\* the trade it creates the current open trade; P stays in the ledger with
\* closed_at, exit and result null (untouched when its id is not reused), and
\* no counter value and no learning state changes.
C5_EntryAbandonsPrior ==
    [][(Handles /\ Branch(ev.e) = "entry" /\ Linked([ev EXCEPT !.trade_id = NoId])
           /\ ~IsClosed(trades[open_trade[ev.symbol]])) =>
          LET p == open_trade[ev.symbol]
              n == open_trade'[ev.symbol]
          IN /\ ev.symbol \in DOMAIN open_trade'
             /\ ev.trade_id # NoId => n = ev.trade_id
             /\ ev.trade_id = NoId => n[1] = ev.symbol /\ n[2] = clock'
             /\ n \in DOMAIN trades'
             /\ trades'[n].symbol = ev.symbol /\ trades'[n].tf = ev.tf
             /\ trades'[n].entry = ev.price /\ trades'[n].opened_at = clock'
             /\ p \in DOMAIN trades'
             /\ trades'[p].closed_at = None /\ trades'[p].exit = None
             /\ trades'[p].result = "None"
             /\ p # n => trades'[p] = trades[p]
             /\ SameCounters(stats, stats', AllCounters)
             /\ learn' = learn]_vars

\* C5 happens: an ENTRY was answered, its trade is the current open trade of
\* its symbol, and an older trade of that symbol is in the ledger, not closed.
C5_Witness ==
    /\ resp.msg = "TAKE" /\ resp.ok
    /\ \E s \in DOMAIN open_trade :
           /\ open_trade[s] = resp.trade_id
           /\ \E p \in DOMAIN trades :
                  /\ p # resp.trade_id /\ trades[p].symbol = s
                  /\ ~IsClosed(trades[p]) /\ trades[p].result = "None"
                  /\ trades[p].opened_at <= trades[resp.trade_id].opened_at

(* C6 *)

NoLinkMessages ==
    {"STOP_HIT_NO_LINKED_ENTRY", "EXIT_NO_LINKED_TRADE", "TRAIL_EXIT_NO_LINKED_ENTRY"}

\* C6: a closing event for which no trade is found is accepted and answered
\* as "no linked entry", raises no exception, and changes no counter value,
\* no learning state, no trade record and no index entry.
C6_MissingLinkReported ==
    [][(Handles /\ IsClosing(ev.e) /\ ~Linked(ev)) =>
          /\ resp'.ok /\ ~resp'.raised
          /\ resp'.msg \in NoLinkMessages
          /\ trades' = trades /\ open_trade' = open_trade /\ learn' = learn
          /\ SameCounters(stats, stats', AllCounters)]_vars

(* C7 *)

IsWin(t, price) ==
    \/ t.side = "BUY" /\ Val(price) > Val(t.entry)
    \/ t.side # "BUY" /\ Val(price) < Val(t.entry)

\* The counters of the event's symbol after a close labelled `label`: that
\* label's counter one higher; every other counter as before.
CountedAs(label) ==
    \A s \in Symbols : \A k \in AllCounters :
        Counter(stats', s, k) =
            Counter(stats, s, k) + (IF s = ev.symbol /\ k = CounterOf(label) THEN 1 ELSE 0)

\* C7 as stated: for every closing event kind, a close within the breakeven
\* band (inclusive) is labelled BREAKEVEN and changes neither wins, losses
\* nor the learning state.
C7_BreakevenFirstEveryKind ==
    [][(Closes /\ InBand(trades[LinkId(ev)], ev.price, ev.symbol)) =>
          /\ trades'[LinkId(ev)].result = "BREAKEVEN"
          /\ CountedAs("BREAKEVEN")
          /\ learn' = learn]_vars

\* C7 amended: TRAIL_EXIT* labels every close within the band (inclusive,
\* tick of the event's symbol) BREAKEVEN before any win/loss comparison;
\* STOP_HIT labels it BREAKEVEN only when be_armed and LOSS otherwise;
\* EXIT_TREND_FLIP labels it WIN when it is a win for the trade's side and
\* BREAKEVEN otherwise.  A BREAKEVEN label of any kind grows only the BE
\* counter and leaves wins, losses and the learning state unchanged.
C7_BreakevenFirstForTrailExit ==
    [][Closes =>
          LET t == trades[LinkId(ev)]
              label == trades'[LinkId(ev)].result
              kind == Branch(ev.e)
          IN /\ InBand(t, ev.price, ev.symbol) =>
                    /\ kind = "trail_exit" => label = "BREAKEVEN"
                    /\ kind = "stop_hit" =>
                           label = (IF t.be_armed THEN "BREAKEVEN" ELSE "LOSS")
                    /\ kind = "exit_flip" =>
                           label = (IF IsWin(t, ev.price) THEN "WIN" ELSE "BREAKEVEN")
             /\ label = "BREAKEVEN" =>
                    /\ InBand(t, ev.price, ev.symbol)
                    /\ CountedAs("BREAKEVEN")
                    /\ learn' = learn]_vars

\* C7 happens: a TRAIL_EXIT was answered for a trade it closed at a price one
\* tick away from the entry, labelled BREAKEVEN.
C7_Witness ==
    /\ resp.msg = "TRAIL_EXIT" /\ resp.trade_id \in DOMAIN trades
    /\ LET t == trades[resp.trade_id]
       IN /\ t.result = "BREAKEVEN" /\ t.exit_reason \in ExitTokens
          /\ t.exit # t.entry /\ t.side \in {"BUY", "SELL"}

(* C8 *)

\* C8 as stated: for every closing event kind, outside the breakeven band, a
\* BUY trade is labelled WIN iff close > entry and a SELL trade iff
\* close < entry, and LOSS otherwise.
C8_WinRuleEveryKind ==
    [][(Closes /\ ~InBand(trades[LinkId(ev)], ev.price, ev.symbol)
           /\ trades[LinkId(ev)].side \in {"BUY", "SELL"}) =>
          trades'[LinkId(ev)].result =
              (IF IsWin(trades[LinkId(ev)], ev.price) THEN "WIN" ELSE "LOSS")]_vars

\* C8 amended: for TRAIL_EXIT* and EXIT_TREND_FLIP, outside the breakeven
\* band, a BUY trade is labelled WIN iff close > entry and a SELL trade iff
\* close < entry, and LOSS otherwise, by the side recorded on the trade at
\* open; STOP_HIT outside the band always labels LOSS.
C8_WinRuleExceptStopHit ==
    [][(Closes /\ ~InBand(trades[LinkId(ev)], ev.price, ev.symbol)
           /\ trades[LinkId(ev)].side \in {"BUY", "SELL"}) =>
          LET t == trades[LinkId(ev)]
              label == trades'[LinkId(ev)].result
          IN /\ trades'[LinkId(ev)].side = t.side
             /\ Branch(ev.e) = "stop_hit" => label = "LOSS"
             /\ Branch(ev.e) # "stop_hit" =>
                    label = (IF IsWin(t, ev.price) THEN "WIN" ELSE "LOSS")]_vars

\* C8 happens: a TRAIL_EXIT* or EXIT_TREND_FLIP was answered for a SELL
\* trade it closed below the entry, outside the band, labelled WIN.
C8_Witness ==
    /\ resp.msg \in {"TRAIL_EXIT", "EXIT_TREND_FLIP"} /\ resp.trade_id \in DOMAIN trades
    /\ LET t == trades[resp.trade_id]
       IN /\ t.side = "SELL" /\ t.result = "WIN"
          /\ Val(t.entry) - Val(t.exit) > 250

(* C9 *)

\* C9: a trade whose side is "N/A" is never labelled WIN by a closing event
\* and never increments the wins counter.
C9_UnknownSideNeverWins ==
    [][(Closes /\ trades[LinkId(ev)].side = "N/A") =>
          /\ trades'[LinkId(ev)].result # "WIN"
          /\ SameCounters(stats, stats', {"wins"})]_vars

(* C10 *)

Sample(L, k) == IF k \in DOMAIN L THEN L[k] ELSE [w |-> 0, l |-> 0]

\* L2 is L with one sample more: counter c of key k is one higher and nothing
\* else differs.
OneSample(L, L2, k, c) ==
    /\ DOMAIN L2 = DOMAIN L \cup {k}
    /\ \A j \in DOMAIN L2 :
           /\ L2[j].w = Sample(L, j).w + (IF j = k /\ c = "w" THEN 1 ELSE 0)
           /\ L2[j].l = Sample(L, j).l + (IF j = k /\ c = "l" THEN 1 ELSE 0)

\* C10: the learning state changes in a step iff the step closes a trade with
\* label WIN or LOSS whose side is BUY or SELL and whose score is present;
\* then exactly one counter (w for WIN, l for LOSS) of exactly one partition
\* (event symbol, trade side, score bucket) grows by exactly 1.
C10_OneSamplePerLabelledClose ==
    [][LET learns ==
               /\ Closes
               /\ trades'[LinkId(ev)].result \in {"WIN", "LOSS"}
               /\ trades[LinkId(ev)].side \in {"BUY", "SELL"}
               /\ trades[LinkId(ev)].score # None
       IN /\ (learn' # learn) <=> learns
          /\ learns =>
                 LET t == trades[LinkId(ev)]
                     b == IF Val(t.score) >= 80 THEN "A" ELSE IF Val(t.score) >= 65 THEN "B"
                          ELSE IF Val(t.score) >= 50 THEN "C" ELSE "SKIP"
                 IN OneSample(learn, learn', <<ev.symbol, t.side, b>>,
                              IF trades'[LinkId(ev)].result = "WIN" THEN "w" ELSE "l")]_vars

\* C10 happens: a close was answered for a trade with a known side and a
\* score that it labelled LOSS, and the learning state holds that one sample.
C10_Witness ==
    /\ resp.msg \in {"TRAIL_EXIT", "EXIT_TREND_FLIP", "STOP_HIT"}
    /\ resp.trade_id \in DOMAIN trades
    /\ LET t == trades[resp.trade_id]
       IN /\ t.result = "LOSS" /\ t.side \in {"BUY", "SELL"} /\ t.score # None
          /\ \E k \in DOMAIN learn : k[2] = t.side /\ learn[k] = [w |-> 0, l |-> 1]
          /\ Cardinality(DOMAIN learn) = 1

(* C11 *)

Labelled(th) == thr[th].outcome # "None"

\* Threads a and b handle closing requests without trade id for the same
\* symbol: the same key of the open index.
SameKey(a, b) ==
    /\ a # b /\ thr[a].pc # "idle" /\ thr[b].pc # "idle"
    /\ thr[a].d.trade_id = NoId /\ thr[b].d.trade_id = NoId
    /\ thr[a].d.symbol = thr[b].d.symbol

CounterSum(S, symbol) ==
    Counter(S, symbol, "wins") + Counter(S, symbol, "losses") + Counter(S, symbol, "be")

\* C11: of two closing requests in flight for the same key at most one finds
\* and labels the open trade, and once both are finished the counters of the
\* key have grown by exactly the one label given.
C11_AtomicClose ==
    \A a, b \in Threads :
        SameKey(a, b) =>
            /\ ~(Labelled(a) /\ Labelled(b))
            /\ (thr[a].pc = "done" /\ thr[b].pc = "done") =>
                   CounterSum(stats, thr[a].d.symbol) =
                       Cardinality({th \in {a, b} : Labelled(th)})

(* C12 *)

\* C12: a closing event linked to an open trade whose price is absent gives
\* no label, changes no counter, no learning state and no trade record, is
\* answered as unresolved ("Result: N/A") and raises no exception.
C12_NoPriceCloseUnresolved ==
    [][(Handles /\ IsClosing(ev.e) /\ Linked(ev) /\ ev.price = None
           /\ ~IsClosed(trades[LinkId(ev)])) =>
          /\ trades' = trades /\ learn' = learn /\ open_trade' = open_trade
          /\ SameCounters(stats, stats', AllCounters)
          /\ resp'.msg \in NoLinkMessages
          /\ resp'.ok /\ ~resp'.raised]_vars

(* C13 *)

\* C13: every request, whatever its kind and fields and whether or not the
\* notification is delivered, is answered with a result; no exception leaves
\* the handler.
C13_EveryEventYieldsResult ==
    [][Handles => resp'.ok /\ ~resp'.raised]_vars

(* C14 *)

Labels == {"WIN", "LOSS", "BREAKEVEN"}

\* The ledger after the step is the ledger the handled event's transition
\* leaves: the trade created and indexed, or closed, labelled, counted and
\* unlinked, or its adds / be_armed set; for an event without a transition
\* the ledger is as before.
Transitioned ==
    LET kind == Branch(ev.e)
        tid == LinkId(ev)
    IN IF kind = "entry"
       THEN /\ ev.symbol \in DOMAIN open_trade'
            /\ open_trade'[ev.symbol] \in DOMAIN trades'
            /\ LET n == trades'[open_trade'[ev.symbol]]
               IN n.symbol = ev.symbol /\ n.entry = ev.price /\ ~IsClosed(n)
            /\ learn' = learn /\ SameCounters(stats, stats', AllCounters)
       ELSE IF IsClosing(ev.e) /\ ~NoLink(ev)
       THEN /\ IsClosed(trades'[tid]) /\ trades'[tid].exit = ev.price
            /\ trades'[tid].result \in Labels
            /\ CountedAs(trades'[tid].result)
            /\ ev.symbol \notin DOMAIN open_trade'
            /\ (trades'[tid].result # "BREAKEVEN" /\ trades[tid].side \in {"BUY", "SELL"}
                    /\ trades[tid].score # None) => learn' # learn
       ELSE IF kind = "scale" /\ Linked(ev)
       THEN /\ trades'[tid].adds = (IF ev.adds # None THEN Val(ev.adds) ELSE trades[tid].adds)
            /\ open_trade' = open_trade /\ learn' = learn
            /\ SameCounters(stats, stats', AllCounters)
       ELSE IF kind = "break_even" /\ Linked(ev)
       THEN /\ trades'[tid].be_armed
            /\ open_trade' = open_trade /\ learn' = learn
            /\ SameCounters(stats, stats', AllCounters)
       ELSE IF kind = "trail_update" /\ Linked(ev)
       THEN /\ open_trade' = open_trade /\ learn' = learn
            /\ SameCounters(stats, stats', AllCounters)
       ELSE /\ trades' = trades /\ open_trade' = open_trade /\ learn' = learn
            /\ SameCounters(stats, stats', AllCounters)

\* C14: when the notification call fails, the ledger is left exactly as the
\* event's transition leaves it: the transition was completed before the
\* call and nothing of it is rolled back.
C14_FailedSendKeepsTransition ==
    [][(Handles /\ resp'.raised) => Transitioned]_vars

\* C14 happens: the notification of a TRAIL_EXIT failed and the trade it was
\* linked to is closed, labelled, counted and no longer indexed.
C14_Witness ==
    /\ resp.raised /\ resp.msg = "TRAIL_EXIT"
    /\ \E id \in DOMAIN trades :
           /\ IsClosed(trades[id]) /\ trades[id].result \in Labels
           /\ trades[id].exit_reason \in ExitTokens
           /\ trades[id].symbol \notin DOMAIN open_trade
           /\ CounterSum(stats, trades[id].symbol) = 1

(* C15 *)

\* C15: a SCALE event linked to an open trade changes only the adds of that
\* trade (to the event's adds, or not at all when the event carries none):
\* closed_at, exit and result stay null and the index, the counters and the
\* learning state are unchanged; when no trade is found nothing changes and
\* the warning is returned.
C15_ScaleTouchesOnlyAdds ==
    [][(Handles /\ Branch(ev.e) = "scale") =>
          LET tid == LinkId(ev)
          IN /\ (Linked(ev) /\ ~IsClosed(trades[tid])) =>
                    /\ trades' = [trades EXCEPT ![tid].adds =
                                      IF ev.adds # None THEN Val(ev.adds) ELSE @]
                    /\ ~IsClosed(trades'[tid]) /\ trades'[tid].exit = None
                    /\ trades'[tid].result = "None"
             /\ ~Linked(ev) =>
                    /\ trades' = trades
                    /\ resp'.ok /\ resp'.warning = "scale_without_open_trade"
             /\ open_trade' = open_trade /\ learn' = learn
             /\ SameCounters(stats, stats', AllCounters)]_vars

(* C16 *)

\* The kind the vocabulary {ENTRY, SCALE, TRAIL*, CLOSE*, OUTCOME} gives a raw
\* token: exact or prefix match, case-insensitive, surrounding blanks ignored.
VocabularyKind(raw) ==
    LET t == Upper(Strip(raw))
    IN IF StartsWith(t, "ENTRY") THEN "OPEN"
       ELSE IF StartsWith(t, "SCALE") THEN "SCALE"
       ELSE IF StartsWith(t, "TRAIL") \/ StartsWith(t, "CLOSE") THEN "CLOSE"
       ELSE IF StartsWith(t, "OUTCOME") THEN "OUTCOME"
       ELSE "UNKNOWN"

\* The kind of event a branch of webhook handles.
KindOfBranch(branch) ==
    IF branch = "entry" THEN "OPEN"
    ELSE IF branch = "scale" THEN "SCALE"
    ELSE IF branch \in {"stop_hit", "exit_flip", "trail_exit"} THEN "CLOSE"
    ELSE IF branch = "unknown" THEN "UNKNOWN"
    ELSE "OTHER"

\* C16: every raw token is routed to the branch of the kind the vocabulary
\* gives it: ENTRY* to the opening branch, SCALE* to the scale branch, TRAIL*
\* and CLOSE* to a closing branch, and every token outside the vocabulary to
\* the fallback that changes nothing.
C16_KindByVocabulary ==
    (call.fn = "classify" /\ call.done) =>
        KindOfBranch(call.out.branch) = VocabularyKind(call.arg)

(* C17 *)

\* C17: the record stored for an opening alert with a detected side and with
\* entry price, stop and target all present has its target on the correct
\* side of the entry: above it for BUY, below it for SELL.
C17_TargetOnCorrectSide ==
    (call.fn = "entry" /\ call.done) =>
        LET t == call.out.trade
        IN (t.side \in {"BUY", "SELL"} /\ t.entry # None /\ t.sl # None /\ t.tp # None) =>
               /\ t.side = "BUY" => Val(t.tp) > Val(t.entry)
               /\ t.side = "SELL" => Val(t.tp) < Val(t.entry)

(* C18 *)

\* The side by the priority order: the side field when it is BUY or SELL,
\* else the marker of the token, else the larger of the two side scores,
\* else unknown.  (No alert carries a directional indicator field.)
SideByPriority(d) ==
    LET field == Upper(Strip(d.side))
        token == Upper(Strip(d.e))
    IN IF field \in {"BUY", "SELL"} THEN field
       ELSE IF Contains(token, "BUY") \/ Contains(token, "LONG") THEN "BUY"
       ELSE IF Contains(token, "SELL") \/ Contains(token, "SHORT") THEN "SELL"
       ELSE IF d.buyScore # None /\ d.sellScore # None /\ Val(d.buyScore) > Val(d.sellScore)
       THEN "BUY"
       ELSE IF d.buyScore # None /\ d.sellScore # None /\ Val(d.sellScore) > Val(d.buyScore)
       THEN "SELL"
       ELSE "N/A"

\* C18: the detected side is the one the priority order gives: side field,
\* then token marker, then the larger side score, else unknown.
C18_SideByPriority ==
    (call.fn = "side" /\ call.done) => call.out.side = SideByPriority(call.arg)

(* C19 *)

\* C19: to_float and to_int never raise; null, an absent key, the empty
\* string and na, n/a, none in any case and padding give no-value; a numeric
\* string, padded or not, gives its number (to_int: its integer part); every
\* other string that is no number gives no-value.
C19_CoercionNeverRaises ==
    (call.fn \in {"to_float", "to_int"} /\ call.done) =>
        LET x == call.arg
            out == call.out
            word == Strip(x.s)
        IN /\ ~out.raised
           /\ (x.t = "none" \/ (x.t = "str" /\ word \in NoValueWords)) => out = NoValue
           /\ (x.t = "str" /\ word \in Unparseable) => out.val = None
           /\ \A p \in NumericLike :
                  (x.t = "str" /\ word = p[1]) =>
                      out.val = Some(IF call.fn = "to_float" THEN p[2]
                                     ELSE IF p[2] >= 0 THEN p[2] - (p[2] % 1000)
                                     ELSE p[2] + ((-p[2]) % 1000))

(* C20 *)

\* C20: every identifier the open index holds refers to a trade record of
\* the ledger that is still open (closed_at and result null) and whose symbol
\* is the key it is indexed under.
C20_OpenIndexInvariant ==
    \A s \in DOMAIN open_trade :
        /\ open_trade[s] \in DOMAIN trades
        /\ ~IsClosed(trades[open_trade[s]])
        /\ trades[open_trade[s]].result = "None"
        /\ trades[open_trade[s]].symbol = s

(* C21 *)

\* C21: every ENTRY adds exactly one record to the ledger, under an
\* identifier that was not in use, and leaves every record the ledger held
\* as it was; so a caller-supplied id already present replaces nothing and
\* no generated id coincides with an earlier one.
C21_EntryUsesFreshId ==
    [][(Handles /\ Branch(ev.e) = "entry") =>
          /\ Cardinality(DOMAIN trades' \ DOMAIN trades) = 1
          /\ \A id \in DOMAIN trades : id \in DOMAIN trades' /\ trades'[id] = trades[id]]_vars

(* C22 *)

\* The closed trade records of `symbol` with label `label`.
ClosedAs(symbol, label) ==
    {id \in DOMAIN trades :
        trades[id].symbol = symbol /\ IsClosed(trades[id]) /\ trades[id].result = label}

\* C22: for each symbol, wins, losses and be are the numbers of closed trade
\* records of that symbol labelled WIN, LOSS and BREAKEVEN, so their sum is
\* the number of closed trades of the symbol.
C22_CountersMatchLedger ==
    \A s \in Symbols : \A label \in Labels :
        Counter(stats, s, CounterOf(label)) = Cardinality(ClosedAs(s, label))

(* C23 *)

\* C23: a STOP_HIT that closes a trade labels it BREAKEVEN iff the trade's
\* be_armed is set and the exit price is within the band around the entry,
\* and LOSS otherwise, never WIN; a BREAK_EVEN or BE_ARM event linked to a
\* trade sets its be_armed, and no event clears the be_armed of a trade.
C23_StopHitByArmedFlag ==
    [][/\ (Closes /\ Branch(ev.e) = "stop_hit") =>
              LET t == trades[LinkId(ev)]
              IN trades'[LinkId(ev)].result =
                     (IF t.be_armed /\ InBand(t, ev.price, ev.symbol)
                      THEN "BREAKEVEN" ELSE "LOSS")
       /\ (Handles /\ Branch(ev.e) = "break_even" /\ Linked(ev)) =>
              trades'[LinkId(ev)].be_armed
       /\ \A id \in DOMAIN trades :
              trades[id].be_armed => (id \in DOMAIN trades' /\ trades'[id].be_armed)]_vars

====
